---- MODULE Spec2Model ----
(***************************************************************************)
(* Model of src/main.py: the team URL liveness checker.                    *)
(*                                                                         *)
(*  - Spec      : one check session's batch engine (main script lines      *)
(*                181-216 driving process_batch, fetch_url_with_retry and  *)
(*                fetch_single).                                           *)
(*  - LockSpec  : the lock file protocol (get_lock_status, acquire_lock,   *)
(*                release_lock) as run by several script processes, with   *)
(*                every file-system operation a separate step.             *)
(*  - SeqSpec   : the same lock protocol when calls never overlap.         *)
(*                                                                         *)
(* Text is a sequence of one-character strings.  The Japanese literals of  *)
(* the source are written as ASCII stand-ins (named next to each one).     *)
(***************************************************************************)
EXTENDS Integers, Sequences, FiniteSets, TLC

VARIABLES
    urls,          \* urls = df[url_col].tolist()                  (line 186)
    rpc,           \* position of the main script inside the run
    i,             \* loop variable of `for i in range(0, total_rows, BATCH_SIZE)`
    all_statuses,  \* line 184
    all_msgs,      \* line 185
    results,       \* process_batch: results                       (line 97)
    messages,      \* process_batch: messages                      (line 98)
    tasks,         \* process_batch: the coroutines of the batch   (line 102)
    done_q,        \* tasks finished, in completion order (asyncio.as_completed)
    attempts,      \* history: per input position, the URLs handed to fetch_single
    computed,      \* history: per input position, what its own task returned
    nstored,       \* history: per input position, assignments of a row result in `results`
    nmerged,       \* history: per input position, assignments to all_statuses / all_msgs
    progress,      \* history: the values handed to progress_bar.progress (line 212)
    pauses,        \* history: time.sleep(BATCH_INTERVAL) calls made (line 216)
    lockFile,      \* the file LOCK_FILE: its directory entry and content
    fh,            \* per process: the handle opened by acquire_lock's open(.., 'w')
    pc,            \* per process: position in the script
    my,            \* per process: user_name, len(df) and start_time of its acquire_lock
    loop_i,        \* per process: loop variable i of its batch loop
    raised,        \* history: per process, an exception was raised inside the `try` of this run
    nrelease,      \* history: per process, release_lock calls made by the `finally` of this run
    runs,          \* script runs started so far (all processes)
    clock,         \* the wall clock read by datetime.datetime.now()
    forced,        \* history: the forced-unlock button ran release_lock
    rel_raised,    \* history: a release_lock call raised
    seqHeld        \* history: a completed acquire_lock returned True and no
                   \* release_lock completed since

engineVars == <<urls, rpc, i, all_statuses, all_msgs, results, messages,
                tasks, done_q, attempts, computed, nstored, nmerged, progress,
                pauses>>
lockVars == <<lockFile, fh, pc, my, loop_i, raised, nrelease, runs, clock,
             forced, rel_raised, seqHeld>>
vars == <<urls, rpc, i, all_statuses, all_msgs, results, messages,
          tasks, done_q, attempts, computed, nstored, nmerged, progress, pauses,
          lockFile, fh, pc, my, loop_i, raised, nrelease, runs, clock,
          forced, rel_raised, seqHeld>>

----------------------------------------------------------------------------
(* Bounds of the model.                                                    *)

\* longest input list
MaxLen == 3
\* script runs (page loads / button presses) explored in the lock protocol
MaxRuns == 6
\* seconds the wall clock advances during the runs explored
MaxClock == 1
\* CONCURRENT_REQUESTS is 10 and BATCH_SIZE is 500 in the source (lines 14
\* and 16); the model runs the same code with small values so that a batch
\* holds more tasks than connections and a run has several batches.
CONCURRENT_REQUESTS == 1
BATCH_SIZE == 2

----------------------------------------------------------------------------
(* Python text operations used by the source.                              *)

Min(a, b) == IF a < b THEN a ELSE b

\* str.startswith
StartsWith(s, p) == Len(s) >= Len(p) /\ SubSeq(s, 1, Len(p)) = p

IsSpace(c) == c \in {" ", "\t", "\n"}

RECURSIVE LStrip(_)
LStrip(s) == IF s = <<>> \/ ~IsSpace(Head(s)) THEN s ELSE LStrip(Tail(s))

RECURSIVE RStrip(_)
RStrip(s) == IF s = <<>> \/ ~IsSpace(s[Len(s)]) THEN s
             ELSE RStrip(SubSeq(s, 1, Len(s) - 1))

\* str.strip
Strip(s) == RStrip(LStrip(s))

\* str.find, 1-based; 0 when absent
Find(s, p) ==
    LET hits == {k \in 1..(Len(s) - Len(p) + 1) : SubSeq(s, k, k + Len(p) - 1) = p}
    IN IF hits = {} THEN 0 ELSE CHOOSE k \in hits : \A m \in hits : k <= m

\* str.replace(old, new, 1)
ReplaceFirst(s, old, new) ==
    LET k == Find(s, old)
    IN IF k = 0 THEN s
       ELSE SubSeq(s, 1, k - 1) \o new \o SubSeq(s, k + Len(old), Len(s))

\* list[k] = v with a 0-based index (a negative index counts from the end)
ListSet(list, k, v) ==
    LET pos == IF k < 0 THEN k + Len(list) + 1 ELSE k + 1
    IN [j \in 1..Len(list) |-> IF j = pos THEN v ELSE list[j]]

\* list[a:b] with 0-based bounds
Slice(list, a, b) == SubSeq(list, a + 1, Min(b, Len(list)))

\* [None] * n
NoneList(n) == [j \in 1..n |-> <<"None">>]

----------------------------------------------------------------------------
(* Values.                                                                 *)

None == <<"None">>

HTTP == <<"h", "t", "t", "p">>
HTTP_COLON == <<"h", "t", "t", "p", ":">>
HTTPS_COLON == <<"h", "t", "t", "p", "s", ":">>

\* the cells of the chosen column that the model feeds to a run
UrlPool ==
    { <<" ", "h", "t", "t", "p", ":", "/", "/", "a", " ">>,       \* " http://a "
      <<"h", "t", "t", "p", "s", ":", "/", "/", "b", "?",
        "h", "t", "t", "p", "s", ":">>,                          \* "https://b?https:"
      <<"h", "t", "t", "p", "x">>,                               \* "httpx"
      <<"f", "t", "p", ":", "/", "/", "x">> }                    \* "ftp://x"

RECURSIVE SeqsUpTo(_, _)
SeqsUpTo(S, n) ==
    IF n = 0 THEN {<<>>}
    ELSE LET shorter == SeqsUpTo(S, n - 1)
         IN shorter \cup {Append(s, x) : s \in {q \in shorter : Len(q) = n - 1}, x \in S}

\* what the transport can do to one request
HttpStatuses == {200, 404}
TransportEvents ==
    {[kind |-> "response", status |-> s] : s \in HttpStatuses}
    \cup {[kind |-> k, status |-> 0] : k \in {"TimeoutError", "ClientConnectorError", "Exception"}}

\* str(e) of the exception caught at line 74
ExcText == <<"e">>

\* status codes ("code" of a result): an HTTP status or a tag
HttpCode(s) == <<"http", s>>
TagCode(t) == <<"tag", t>>

\* message literals; stand-ins for the Japanese text of the source
MSG_OK == <<"OK">>
MSG_TIMEOUT == <<"taimuauto">>            \* line 71
MSG_CONNECT == <<"setsuzoku-fuka">>       \* line 73
CODE_INVALID == TagCode("URL-fusei")      \* line 110
MSG_INVALID == <<"http/https-nashi">>     \* line 111
\* f"OK (auto-switch: {retry_url})"       \* line 91
AutoSwitchMsg(retry_url) == <<"OK (jidou-kirikae: ">> \o retry_url \o <<")">>

NoRes == [status |-> "None", code |-> None, msg |-> None]

----------------------------------------------------------------------------
(* fetch_single and fetch_url_with_retry.                                  *)

Caught_OnlyNamed(ev) == ev.kind \in {"response", "TimeoutError", "ClientConnectorError"}

\* fetch_single's handlers (lines 70-75): the two named exceptions and, by
\* `except Exception`, every other one
Caught(ev) == ev.kind \in {"response", "TimeoutError", "ClientConnectorError", "Exception"}

\* the dict fetch_single returns for what happened to its request
fetch_single(ev) ==
    CASE ev.kind = "response" ->
            [status |-> "OK", code |-> HttpCode(ev.status), msg |-> MSG_OK]
      [] ev.kind = "TimeoutError" ->
            [status |-> "Error", code |-> TagCode("Timeout"), msg |-> MSG_TIMEOUT]
      [] ev.kind = "ClientConnectorError" ->
            [status |-> "Error", code |-> TagCode("ConnectError"), msg |-> MSG_CONNECT]
      [] OTHER ->
            [status |-> "Error", code |-> TagCode("Error"), msg |-> ExcText]

RetryUrl_AnyHttp(url) ==
    IF StartsWith(url, HTTP) THEN ReplaceFirst(url, HTTP_COLON, HTTPS_COLON)
    ELSE IF StartsWith(url, HTTPS_COLON) THEN ReplaceFirst(url, HTTPS_COLON, HTTP_COLON)
    ELSE None

\* lines 82-86
RetryUrl(url) ==
    IF StartsWith(url, HTTP_COLON) THEN ReplaceFirst(url, HTTP_COLON, HTTPS_COLON)
    ELSE IF StartsWith(url, HTTPS_COLON) THEN ReplaceFirst(url, HTTPS_COLON, HTTP_COLON)
    ELSE None

\* line 88: `if retry_url:`
Truthy(u) == u # None /\ u # <<>>

\* line 80
ReturnFirst(t) == <<t.row_index, t.res.code, t.res.msg>>
ReturnSwitched_OwnUrl(t, res_retry) == <<t.row_index, res_retry.code, AutoSwitchMsg(t.url)>>

\* line 91
ReturnSwitched(t, res_retry) == <<t.row_index, res_retry.code, AutoSwitchMsg(t.retry_url)>>
ReturnOriginal_Last(t) ==
    IF t.res_retry # NoRes THEN <<t.row_index, t.res_retry.code, t.res_retry.msg>>
    ELSE <<t.row_index, t.res.code, t.res.msg>>

\* line 93
ReturnOriginal(t) == <<t.row_index, t.res.code, t.res.msg>>

real_index_Local(start_index, k) == k

\* line 104
real_index(start_index, k) == start_index + k
local_index_Global(row_index, start_index) == row_index

\* line 117
local_index(row_index, start_index) == row_index - start_index
Dispatchable_Colon(url_str) == StartsWith(url_str, HTTP_COLON)

\* line 106
Dispatchable(url_str) == StartsWith(url_str, HTTP)

\* the task of fetch_url_with_retry(session, url_str, real_index), suspended
\* in its first fetch_single; src is the input position it was created for
NewTask(url_str, row_index, src) ==
    [url |-> url_str, row_index |-> row_index, src |-> src, st |-> "wait1",
     res |-> NoRes, res_retry |-> NoRes, retry_url |-> None, ret |-> None]

\* connections taken from the pool of aiohttp.TCPConnector(limit=...)
InFlight == Cardinality({t \in 1..Len(tasks) : tasks[t].st \in {"fly1", "fly2"}})

ConnectorHasSlot_NoLimit == InFlight >= 0

\* TCPConnector(limit=CONCURRENT_REQUESTS): a request gets a connection
\* only while fewer than `limit` are taken
ConnectorHasSlot == InFlight < CONCURRENT_REQUESTS

\* fetch_url_with_retry resumes with the result of an attempt (lines 78-93)
AfterProbe(t, r) ==
    LET tk == tasks[t] IN
    IF tk.st \in {"wait1", "fly1"}
    THEN IF r.status = "OK"
         THEN [tk EXCEPT !.st = "done", !.res = r,
                         !.ret = ReturnFirst([tk EXCEPT !.res = r])]
         ELSE LET ru == RetryUrl(tk.url) IN
              IF Truthy(ru)
              THEN [tk EXCEPT !.st = "wait2", !.res = r, !.retry_url = ru]
              ELSE [tk EXCEPT !.st = "done", !.res = r, !.retry_url = ru,
                              !.ret = ReturnOriginal([tk EXCEPT !.res = r])]
    ELSE IF r.status = "OK"
         THEN [tk EXCEPT !.st = "done", !.res_retry = r, !.ret = ReturnSwitched(tk, r)]
         ELSE [tk EXCEPT !.st = "done", !.res_retry = r,
                         !.ret = ReturnOriginal([tk EXCEPT !.res_retry = r])]

\* bookkeeping common to both ways an attempt ends
Resume(t, r) ==
    LET nt == AfterProbe(t, r) IN
    /\ tasks' = [tasks EXCEPT ![t] = nt]
    /\ done_q' = IF nt.st = "done" THEN Append(done_q, t) ELSE done_q
    /\ attempts' = IF nt.st = "wait2"
                   THEN [attempts EXCEPT ![nt.src + 1] = Append(@, nt.retry_url)]
                   ELSE attempts
    /\ computed' = IF nt.st = "done"
                   THEN [computed EXCEPT ![nt.src + 1] = <<nt.ret[2], nt.ret[3]>>]
                   ELSE computed

----------------------------------------------------------------------------
(* The run of one session: main script lines 181-216 and process_batch.    *)

total_rows == Len(urls)

\* lines 183-192
RunStart ==
    /\ rpc = "start"
    /\ all_statuses' = NoneList(total_rows)
    /\ all_msgs' = NoneList(total_rows)
    /\ i' = 0
    /\ rpc' = "loop"
    /\ UNCHANGED <<urls, results, messages, tasks, done_q, attempts, computed,
                   nstored, nmerged, progress, pauses>>

\* lines 195-203 and process_batch lines 97-111: cut the batch, fill the
\* invalid entries, create one task per dispatchable entry
StartBatch ==
    /\ rpc = "loop"
    /\ i < total_rows
    /\ LET batch_urls == Slice(urls, i, i + BATCH_SIZE)
           n == Len(batch_urls)
           url_str(k) == Strip(batch_urls[k + 1])
           disp == {k \in 0..(n - 1) : Dispatchable(url_str(k))}
           \* the k-th created task, in enumeration order
           RECURSIVE Build(_)
           Build(k) == IF k >= n THEN <<>>
                       ELSE IF k \in disp
                            THEN <<NewTask(url_str(k), real_index(i, k), i + k)>> \o Build(k + 1)
                            ELSE Build(k + 1)
       IN /\ tasks' = Build(0)
          /\ results' = [j \in 1..n |-> IF (j - 1) \in disp THEN None ELSE CODE_INVALID]
          /\ messages' = [j \in 1..n |-> IF (j - 1) \in disp THEN None ELSE MSG_INVALID]
          /\ attempts' = [p \in 1..total_rows |->
                            IF p - 1 - i \in disp THEN <<url_str(p - 1 - i)>> ELSE attempts[p]]
          /\ computed' = [p \in 1..total_rows |->
                            IF p - 1 - i \in 0..(n - 1) /\ p - 1 - i \notin disp
                            THEN <<CODE_INVALID, MSG_INVALID>> ELSE computed[p]]
          /\ nstored' = [p \in 1..total_rows |->
                            IF p - 1 - i \in 0..(n - 1) /\ p - 1 - i \notin disp
                            THEN nstored[p] + 1 ELSE nstored[p]]
    /\ done_q' = <<>>
    /\ rpc' = "batch"
    /\ UNCHANGED <<urls, i, all_statuses, all_msgs, nmerged, progress, pauses>>

\* session.get obtains a connection from the pool
Connect(t) ==
    /\ rpc = "batch"
    /\ tasks[t].st \in {"wait1", "wait2"}
    /\ ConnectorHasSlot
    /\ tasks' = [tasks EXCEPT ![t].st = IF @ = "wait1" THEN "fly1" ELSE "fly2"]
    /\ UNCHANGED <<urls, rpc, i, all_statuses, all_msgs, results, messages,
                   done_q, attempts, computed, nstored, nmerged, progress, pauses>>

\* the request ends: a response was read or an exception was raised; the
\* connection goes back to the pool (fetch_single lines 66-75).  An
\* exception no handler of fetch_single catches would leave process_batch
\* and end the batch loop (line 240).
Respond(t, ev) ==
    /\ rpc = "batch"
    /\ tasks[t].st \in {"fly1", "fly2"}
    /\ IF Caught(ev)
       THEN /\ Resume(t, fetch_single(ev))
            /\ UNCHANGED rpc
       ELSE /\ rpc' = "aborted"
            /\ UNCHANGED <<tasks, done_q, attempts, computed>>
    /\ UNCHANGED <<urls, i, all_statuses, all_msgs, results, messages,
                   nstored, nmerged, progress, pauses>>

\* timeout=20 also covers the wait for a free connection: the request can
\* time out before it ever got one
PoolTimeout(t) ==
    /\ rpc = "batch"
    /\ tasks[t].st \in {"wait1", "wait2"}
    /\ ~ConnectorHasSlot
    /\ Resume(t, fetch_single([kind |-> "TimeoutError", status |-> 0]))
    /\ UNCHANGED <<urls, rpc, i, all_statuses, all_msgs, results, messages,
                   nstored, nmerged, progress, pauses>>

\* one iteration of `for task in asyncio.as_completed(tasks)` (lines 113-119)
Collect ==
    /\ rpc = "batch"
    /\ done_q # <<>>
    /\ LET t == Head(done_q)
           row_index == tasks[t].ret[1]
           status_code == tasks[t].ret[2]
           msg == tasks[t].ret[3]
           li == local_index(row_index, i)
           \* the input position whose slot of `results` is assigned
           hit == i + (IF li < 0 THEN li + Len(results) ELSE li) + 1
       IN /\ results' = ListSet(results, li, status_code)
          /\ messages' = ListSet(messages, li, msg)
          /\ tasks' = [tasks EXCEPT ![t] = [@ EXCEPT !.st = "collected", !.res = NoRes,
                                              !.res_retry = NoRes, !.ret = None]]
          /\ nstored' = [p \in 1..total_rows |->
                            IF p = hit /\ p - i \in 1..Len(results)
                            THEN nstored[p] + 1 ELSE nstored[p]]
    /\ done_q' = Tail(done_q)
    /\ UNCHANGED <<urls, rpc, i, all_statuses, all_msgs, attempts, computed,
                   nmerged, progress, pauses>>

BatchComplete_FirstResult ==
    tasks = <<>> \/ \E t \in 1..Len(tasks) : tasks[t].st = "collected"

\* `for task in asyncio.as_completed(tasks)` is exhausted (line 113): every
\* task of the batch has been awaited
BatchComplete == \A t \in 1..Len(tasks) : tasks[t].st = "collected"

\* a fraction num/den as the pair <<num, den>>
FracLess(a, b) == a[1] * b[2] < b[1] * a[2]

ProgressValue_NoMin(start_index, total) == <<start_index + BATCH_SIZE, total>>

\* min((i + BATCH_SIZE) / total_rows, 1.0) (line 212)
ProgressValue(start_index, total) ==
    IF FracLess(<<start_index + BATCH_SIZE, total>>, <<1, 1>>)
    THEN <<start_index + BATCH_SIZE, total>> ELSE <<1, 1>>

MoreBatches_Inclusive(start_index, total) == start_index + BATCH_SIZE <= total

\* line 215
MoreBatches(start_index, total) == start_index + BATCH_SIZE < total

\* process_batch returns (line 121); the results are merged (lines 207-209)
\* and the progress bar is moved (line 212)
FinishBatch ==
    /\ rpc = "batch"
    /\ BatchComplete
    /\ all_statuses' = [p \in 1..Len(all_statuses) |->
                          IF p - 1 - i \in 0..(Len(results) - 1)
                          THEN results[p - i] ELSE all_statuses[p]]
    /\ all_msgs' = [p \in 1..Len(all_msgs) |->
                      IF p - 1 - i \in 0..(Len(results) - 1)
                      THEN messages[p - i] ELSE all_msgs[p]]
    /\ tasks' = <<>>
    /\ results' = <<>>
    /\ messages' = <<>>
    /\ nmerged' = [p \in 1..Len(all_statuses) |->
                      IF p - 1 - i \in 0..(Len(results) - 1)
                      THEN nmerged[p] + 1 ELSE nmerged[p]]
    /\ progress' = Append(progress, ProgressValue(i, total_rows))
    /\ IF MoreBatches(i, total_rows)
       THEN rpc' = "sleep" /\ i' = i
       ELSE rpc' = "loop" /\ i' = i + BATCH_SIZE
    /\ UNCHANGED <<urls, done_q, attempts, computed, nstored, pauses>>

\* time.sleep(BATCH_INTERVAL) (lines 215-216), then the next iteration
Sleep ==
    /\ rpc = "sleep"
    /\ rpc' = "loop"
    /\ i' = i + BATCH_SIZE
    /\ pauses' = pauses + 1
    /\ UNCHANGED <<urls, all_statuses, all_msgs, results, messages, tasks,
                   done_q, attempts, computed, nstored, nmerged, progress>>

\* the loop is exhausted: lines 219-220 take all_statuses / all_msgs as the output
LoopEnd ==
    /\ rpc = "loop"
    /\ i >= total_rows
    /\ rpc' = "finished"
    /\ UNCHANGED <<urls, i, all_statuses, all_msgs, results, messages, tasks,
                   done_q, attempts, computed, nstored, nmerged, progress, pauses>>

----------------------------------------------------------------------------
(* The lock file and the script as run by several processes.               *)

Procs == {"p1", "p2", "p3"}

\* st.text_input: the name each user typed (line 160)
user_name(p) == CASE p = "p1" -> <<"A">>
                  [] p = "p2" -> <<"B", "o">>
                  [] OTHER -> <<"C">>

\* len(df) of the uploaded list: an empty list or the longest one
Totals == {0, MaxLen}

\* datetime.datetime.now()
Now == clock

\* the dict built by acquire_lock (lines 49-54)
LockData(user, total_items, start_time) ==
    [user |-> user, start_time |-> start_time, total |-> total_items, status |-> "Running"]

\* number of characters json.dump writes for a record, the fixed part left out
JsonLen(data) == Len(data.user) + (IF data.total < 10 THEN 1 ELSE 2)

NoFile == [exists |-> FALSE, kind |-> "none", data |-> None, len |-> 0]
EmptyFile == [exists |-> TRUE, kind |-> "empty", data |-> None, len |-> 0]

\* os.path.exists(LOCK_FILE)
Exists == lockFile.exists

\* get_lock_status (lines 32-41): the first component of its result; a file
\* json.load cannot read counts as no lock
get_lock_status == Exists /\ lockFile.kind = "json"

\* json.dump through a handle opened with 'w' writes from offset 0 over
\* whatever the file holds by then; shorter text leaves the old tail behind
WriteOver(file, data) ==
    IF JsonLen(data) >= file.len
    THEN [exists |-> TRUE, kind |-> "json", data |-> data, len |-> JsonLen(data)]
    ELSE [exists |-> TRUE, kind |-> "garbage", data |-> None, len |-> file.len]

Removed_Kept(file) == file

\* os.remove(LOCK_FILE) (line 62): what is left of the file
Removed(file) == NoFile

\* acquire_lock line 45: the test that decides whether the call goes on
AcquireSeesLock == Exists

HandlerOf_NoFinally(kind) == IF kind = "Exception" THEN "except" ELSE "ended"

\* where control goes when something is raised inside the `try` of line 181:
\* an Exception reaches the handler of line 240, anything else (streamlit's
\* stop / rerun signals, KeyboardInterrupt) only the `finally` of line 242
HandlerOf(kind) == IF kind = "Exception" THEN "except" ELSE "fin_check"

ExcKinds == {"Exception", "BaseException"}

\* a script run begins: st.set_page_config ... get_lock_status() (line 135),
\* nothing pressed; the page shows either the locked notice or the form
StatusLoad(p) ==
    /\ pc[p] \in {"idle", "locked_page", "free_page", "refused", "ended"}
    /\ runs < MaxRuns
    /\ runs' = runs + 1
    /\ UNCHANGED clock
    /\ pc' = [pc EXCEPT ![p] = IF get_lock_status THEN "locked_page" ELSE "free_page"]
    /\ raised' = [raised EXCEPT ![p] = FALSE]
    /\ nrelease' = [nrelease EXCEPT ![p] = 0]
    /\ UNCHANGED <<lockFile, fh, my, loop_i, forced, rel_raised, seqHeld>>

\* the start button of the page shown by the previous run is pressed (line
\* 175): the script reruns from the top, stops at line 152 when it now finds
\* the lock, else reaches acquire_lock
StatusStart(p) ==
    /\ pc[p] \in {"free_page", "refused", "ended"}
    /\ runs < MaxRuns
    /\ runs' = runs + 1
    /\ UNCHANGED clock
    /\ \E total \in Totals :
         my' = [my EXCEPT ![p] = [user |-> user_name(p), total |-> total, start_time |-> 0]]
    /\ pc' = [pc EXCEPT ![p] = IF get_lock_status THEN "locked_page" ELSE "acq_check"]
    /\ raised' = [raised EXCEPT ![p] = FALSE]
    /\ nrelease' = [nrelease EXCEPT ![p] = 0]
    /\ UNCHANGED <<lockFile, fh, loop_i, forced, rel_raised, seqHeld>>

\* the forced-unlock button is pressed (line 147): the script reruns from
\* the top and reaches release_lock only if it still finds the lock
StatusForce(p) ==
    /\ pc[p] = "locked_page"
    /\ runs < MaxRuns
    /\ runs' = runs + 1
    /\ UNCHANGED clock
    /\ pc' = [pc EXCEPT ![p] = IF get_lock_status THEN "force_check" ELSE "free_page"]
    /\ forced' = (forced \/ get_lock_status)
    /\ raised' = [raised EXCEPT ![p] = FALSE]
    /\ nrelease' = [nrelease EXCEPT ![p] = 0]
    /\ UNCHANGED <<lockFile, fh, my, loop_i, rel_raised, seqHeld>>

\* acquire_lock lines 45-48: the test and, past it, the start time; on False
\* the script shows the error and stops (lines 178-179)
AcqExists(p) ==
    /\ pc[p] = "acq_check"
    /\ pc' = [pc EXCEPT ![p] = IF AcquireSeesLock THEN "refused" ELSE "acq_open"]
    /\ my' = [my EXCEPT ![p].start_time = IF AcquireSeesLock THEN @ ELSE Now]
    /\ UNCHANGED <<lockFile, fh, loop_i, raised, nrelease, runs, clock, forced,
                   rel_raised, seqHeld>>

\* acquire_lock line 55: open(LOCK_FILE, 'w') creates the file or empties
\* the one that is there
AcqOpen(p) ==
    /\ pc[p] = "acq_open"
    /\ lockFile' = EmptyFile
    /\ fh' = [fh EXCEPT ![p] = "linked"]
    /\ pc' = [pc EXCEPT ![p] = "acq_write"]
    /\ UNCHANGED <<my, loop_i, raised, nrelease, runs, clock, forced, rel_raised, seqHeld>>

\* acquire_lock lines 56-57: json.dump, close, return True (the local
\* start_time is gone).  A handle whose file was removed meanwhile writes to
\* a file no path leads to.
AcqWrite(p) ==
    /\ pc[p] = "acq_write"
    /\ lockFile' = IF fh[p] = "linked"
                   THEN WriteOver(lockFile, LockData(my[p].user, my[p].total, my[p].start_time))
                   ELSE lockFile
    /\ fh' = [fh EXCEPT ![p] = "none"]
    /\ pc' = [pc EXCEPT ![p] = "try"]
    /\ my' = [my EXCEPT ![p].start_time = 0]
    /\ seqHeld' = TRUE
    /\ UNCHANGED <<loop_i, raised, nrelease, runs, clock, forced, rel_raised>>

\* something is raised at the current point of the `try` block
Raise(p, kind) ==
    /\ pc' = [pc EXCEPT ![p] = HandlerOf(kind)]
    /\ raised' = [raised EXCEPT ![p] = TRUE]

\* lines 183-192
RunTry(p) ==
    /\ pc[p] = "try"
    /\ \/ /\ pc' = [pc EXCEPT ![p] = "loop"]
          /\ loop_i' = [loop_i EXCEPT ![p] = 0]
          /\ UNCHANGED raised
       \/ /\ \E kind \in ExcKinds : Raise(p, kind)
          /\ UNCHANGED loop_i
    /\ UNCHANGED <<lockFile, fh, my, nrelease, runs, clock, forced, rel_raised, seqHeld>>

\* one pass of the batch loop (lines 195-216), or its end; the loop variable
\* is not used after the loop
BatchIter(p) ==
    /\ pc[p] = "loop"
    /\ \/ /\ loop_i[p] < my[p].total
          /\ loop_i' = [loop_i EXCEPT ![p] = @ + BATCH_SIZE]
          /\ UNCHANGED <<pc, raised>>
       \/ /\ loop_i[p] < my[p].total
          /\ \E kind \in ExcKinds : Raise(p, kind)
          /\ loop_i' = [loop_i EXCEPT ![p] = 0]
       \/ /\ loop_i[p] >= my[p].total
          /\ pc' = [pc EXCEPT ![p] = "result"]
          /\ loop_i' = [loop_i EXCEPT ![p] = 0]
          /\ UNCHANGED raised
    /\ UNCHANGED <<lockFile, fh, my, nrelease, runs, clock, forced, rel_raised, seqHeld>>

\* lines 219-238: the result columns, the spreadsheet, the download button
Result(p) ==
    /\ pc[p] = "result"
    /\ \/ /\ pc' = [pc EXCEPT ![p] = "fin_check"]
          /\ UNCHANGED raised
       \/ \E kind \in ExcKinds : Raise(p, kind)
    /\ UNCHANGED <<lockFile, fh, my, loop_i, nrelease, runs, clock, forced, rel_raised, seqHeld>>

\* lines 240-241
Except(p) ==
    /\ pc[p] = "except"
    /\ pc' = [pc EXCEPT ![p] = "fin_check"]
    /\ UNCHANGED <<lockFile, fh, my, loop_i, raised, nrelease, runs, clock, forced,
                   rel_raised, seqHeld>>

\* release_lock line 61, called from the `finally` (line 244) or from the
\* forced-unlock button (line 148)
RelExists(p) ==
    /\ pc[p] \in {"fin_check", "force_check"}
    /\ nrelease' = [nrelease EXCEPT ![p] = IF pc[p] = "fin_check" THEN @ + 1 ELSE @]
    /\ IF Exists
       THEN /\ pc' = [pc EXCEPT ![p] = IF @ = "fin_check" THEN "fin_remove" ELSE "force_remove"]
            /\ UNCHANGED seqHeld
       ELSE /\ pc' = [pc EXCEPT ![p] = IF @ = "fin_check" THEN "ended" ELSE "idle"]
            /\ seqHeld' = FALSE
    /\ UNCHANGED <<lockFile, fh, my, loop_i, raised, runs, clock, forced, rel_raised>>

\* release_lock line 62: os.remove raises when the file is gone by now.
\* After the `finally` the run ends (line 245); after the button comes
\* st.rerun() (line 149).
RelRemove(p) ==
    /\ pc[p] \in {"fin_remove", "force_remove"}
    /\ lockFile' = Removed(lockFile)
    /\ fh' = [q \in Procs |-> IF Exists /\ fh[q] = "linked" THEN "unlinked" ELSE fh[q]]
    /\ rel_raised' = (rel_raised \/ ~Exists)
    /\ pc' = [pc EXCEPT ![p] = IF @ = "fin_remove" THEN "ended" ELSE "idle"]
    /\ seqHeld' = FALSE
    /\ UNCHANGED <<my, loop_i, raised, nrelease, runs, clock, forced>>

\* the lock protocol takes no part in Spec
LockIdle ==
    /\ lockFile = <<>>
    /\ fh = <<>>
    /\ pc = <<>>
    /\ my = <<>>
    /\ loop_i = <<>>
    /\ raised = <<>>
    /\ nrelease = <<>>
    /\ runs = 0
    /\ clock = 0
    /\ forced = FALSE
    /\ rel_raised = FALSE
    /\ seqHeld = FALSE

Init ==
    /\ urls \in SeqsUpTo(UrlPool, MaxLen)
    /\ rpc = "start"
    /\ i = 0
    /\ all_statuses = <<>>
    /\ all_msgs = <<>>
    /\ results = <<>>
    /\ messages = <<>>
    /\ tasks = <<>>
    /\ done_q = <<>>
    /\ attempts = [p \in 1..Len(urls) |-> <<>>]
    /\ computed = [p \in 1..Len(urls) |-> None]
    /\ nstored = [p \in 1..Len(urls) |-> 0]
    /\ nmerged = [p \in 1..Len(urls) |-> 0]
    /\ progress = <<>>
    /\ pauses = 0
    /\ LockIdle

Next ==
    \/ RunStart /\ UNCHANGED lockVars
    \/ StartBatch /\ UNCHANGED lockVars
    \/ \E t \in 1..Len(tasks) : Connect(t) /\ UNCHANGED lockVars
    \/ \E t \in 1..Len(tasks), ev \in TransportEvents : Respond(t, ev) /\ UNCHANGED lockVars
    \/ \E t \in 1..Len(tasks) : PoolTimeout(t) /\ UNCHANGED lockVars
    \/ Collect /\ UNCHANGED lockVars
    \/ FinishBatch /\ UNCHANGED lockVars
    \/ Sleep /\ UNCHANGED lockVars
    \/ LoopEnd /\ UNCHANGED lockVars

Spec == Init /\ [][Next]_vars

\* the event loop keeps running whatever can run, and every request ends
\* (with a response, an error, or the timeout of line 67)
LiveSpec == Init /\ [][Next]_vars /\ WF_vars(Next)

----------------------------------------------------------------------------
(* The lock protocol on its own.                                           *)

\* no run of the engine is modelled in LockSpec
EngineIdle ==
    /\ urls = <<>>
    /\ rpc = "none"
    /\ i = 0
    /\ all_statuses = <<>>
    /\ all_msgs = <<>>
    /\ results = <<>>
    /\ messages = <<>>
    /\ tasks = <<>>
    /\ done_q = <<>>
    /\ attempts = <<>>
    /\ computed = <<>>
    /\ nstored = <<>>
    /\ nmerged = <<>>
    /\ progress = <<>>
    /\ pauses = 0

LockInit ==
    /\ lockFile = NoFile
    /\ fh = [p \in Procs |-> "none"]
    /\ pc = [p \in Procs |-> "idle"]
    /\ my = [p \in Procs |-> [user |-> user_name(p), total |-> 0, start_time |-> 0]]
    /\ loop_i = [p \in Procs |-> 0]
    /\ raised = [p \in Procs |-> FALSE]
    /\ nrelease = [p \in Procs |-> 0]
    /\ runs = 0
    /\ clock = 0
    /\ forced = FALSE
    /\ rel_raised = FALSE
    /\ seqHeld = FALSE
    /\ EngineIdle

LockStep(p) ==
    \/ StatusLoad(p) /\ UNCHANGED engineVars
    \/ StatusStart(p) /\ UNCHANGED engineVars
    \/ StatusForce(p) /\ UNCHANGED engineVars
    \/ AcqExists(p) /\ UNCHANGED engineVars
    \/ AcqOpen(p) /\ UNCHANGED engineVars
    \/ AcqWrite(p) /\ UNCHANGED engineVars
    \/ RunTry(p) /\ UNCHANGED engineVars
    \/ BatchIter(p) /\ UNCHANGED engineVars
    \/ Result(p) /\ UNCHANGED engineVars
    \/ Except(p) /\ UNCHANGED engineVars
    \/ RelExists(p) /\ UNCHANGED engineVars
    \/ RelRemove(p) /\ UNCHANGED engineVars

\* a second passes
Tick ==
    /\ clock < MaxClock
    /\ clock' = clock + 1
    /\ UNCHANGED <<lockFile, fh, pc, my, loop_i, raised, nrelease, runs, forced,
                   rel_raised, seqHeld>>

LockNext ==
    \/ \E p \in Procs : LockStep(p)
    \/ Tick /\ UNCHANGED engineVars

LockSpec == LockInit /\ [][LockNext]_vars

\* a process is between two steps of one acquire_lock or release_lock call
MidCall(q) == pc[q] \in {"acq_open", "acq_write", "fin_remove", "force_remove"}

\* calls of the lock functions follow one another: nobody starts or
\* continues a call while another process is inside one
SeqNext ==
    \/ \E p \in Procs : (\A q \in Procs \ {p} : ~MidCall(q)) /\ LockStep(p)
    \/ Tick /\ UNCHANGED engineVars

SeqSpec == LockInit /\ [][SeqNext]_vars

----------------------------------------------------------------------------
(* Properties.                                                             *)

\* acquire_lock returned True and the session has not yet run its release_lock
Active(p) == pc[p] \in {"try", "loop", "result", "except", "fin_check"}

\* C1 (LockSpec): as long as the forced unlock was never used, at most one
\* session is active at a time, whatever the interleaving of the processes.
MutualExclusion ==
    ~forced => Cardinality({p \in Procs : Active(p)}) <= 1

\* C2 (LockSpec): a session whose acquire_lock returned True calls
\* release_lock exactly once, at the end of its run and not before, on the
\* normal path and on every path an exception takes; a session whose
\* acquire_lock returned False never calls it.
GuaranteedRelease ==
    \A p \in Procs :
        /\ pc[p] \in {"fin_remove", "ended"} => nrelease[p] = 1
        /\ pc[p] \in {"acq_check", "acq_open", "acq_write", "refused"} => nrelease[p] = 0
        /\ Active(p) => nrelease[p] = 0

\* a run that raised inside the `try` has ended after its release, while
\* another session was refused
ReleasedAfterException ==
    \E p, q \in Procs :
        /\ pc[p] = "ended" /\ raised[p] /\ nrelease[p] = 1
        /\ pc[q] = "refused" /\ nrelease[q] = 0

\* C3 (Spec): the output is as long as the input, and every position of it
\* holds what the task created for that input position returned (or the
\* invalid-URL result of that position), whatever the order of completion.
OrderPreserving ==
    /\ rpc # "start" => Len(all_statuses) = Len(urls) /\ Len(all_msgs) = Len(urls)
    /\ \A k \in 1..Len(all_statuses) :
          /\ all_statuses[k] # None => <<all_statuses[k], all_msgs[k]>> = computed[k]
          /\ rpc = "finished" => all_statuses[k] # None /\ all_msgs[k] # None
          /\ attempts[k] # <<>> => attempts[k][1] = Strip(urls[k])

\* of two tasks of one batch the later entry finished and was stored first
StoredOutOfOrder ==
    /\ rpc = "batch"
    /\ Len(tasks) = 2
    /\ tasks[2].st = "collected" /\ tasks[1].st # "collected"
    /\ results[2] # None /\ results[1] = None

\* C4 (Spec): an entry whose trimmed text does not start with "http" gets no
\* task, no attempt and no connection, and its result is the fixed
\* invalid-URL pair; an entry that does start with "http" is probed.
InvalidNeverDispatched ==
    \A k \in 1..Len(all_statuses) :
        IF StartsWith(Strip(urls[k]), HTTP)
        THEN /\ all_statuses[k] # CODE_INVALID
             /\ rpc = "finished" => Len(attempts[k]) >= 1
        ELSE /\ attempts[k] = <<>>
             /\ \A t \in 1..Len(tasks) : tasks[t].src # k - 1
             /\ all_statuses[k] \in {None, CODE_INVALID}
             /\ rpc = "finished" => all_statuses[k] = CODE_INVALID /\ all_msgs[k] = MSG_INVALID

\* a finished run with an invalid entry next to a probed one
InvalidBesideProbed ==
    /\ rpc = "finished"
    /\ \E k, m \in 1..Len(urls) :
          /\ all_statuses[k] = CODE_INVALID /\ attempts[k] = <<>>
          /\ Len(attempts[m]) >= 1

\* the URL with only its leading scheme exchanged
SchemeSwapped(url) ==
    IF SubSeq(url, 1, 5) = HTTP_COLON THEN HTTPS_COLON \o SubSeq(url, 6, Len(url))
    ELSE HTTP_COLON \o SubSeq(url, 7, Len(url))

HasSchemePrefix(url) == StartsWith(url, HTTP_COLON) \/ StartsWith(url, HTTPS_COLON)

\* tasks that have returned and still hold their attempts' results
Returned == {t \in 1..Len(tasks) : tasks[t].st = "done"}

\* C5 (Spec): first probe not Ok, alternate probe Ok with a status other
\* than 404: the task returns its own index, the alternate attempt's code
\* and the auto-switch message naming exactly the scheme-swapped URL.
SchemeSwapSuccess ==
    \A t \in Returned :
        (/\ tasks[t].res.status = "Error"
         /\ tasks[t].res_retry.status = "OK"
         /\ tasks[t].res_retry.code # HttpCode(404))
        => /\ tasks[t].ret = <<tasks[t].src, tasks[t].res_retry.code,
                               AutoSwitchMsg(SchemeSwapped(tasks[t].url))>>
           /\ attempts[tasks[t].src + 1] = <<tasks[t].url, SchemeSwapped(tasks[t].url)>>

\* a task of the second batch switched scheme and got a 200
SwitchedTo200 ==
    \E t \in Returned :
        /\ tasks[t].res.status = "Error"
        /\ tasks[t].res_retry.code = HttpCode(200)
        /\ tasks[t].src >= BATCH_SIZE

\* C6 (Spec): both probes not Ok: the task returns the first attempt's code
\* and message.
DoubleFailureKeepsOriginal ==
    \A t \in Returned :
        (tasks[t].res.status = "Error" /\ tasks[t].res_retry.status = "Error")
        => tasks[t].ret = <<tasks[t].src, tasks[t].res.code, tasks[t].res.msg>>

\* the two probes failed in different ways
FailedTwiceDifferently ==
    \E t \in Returned :
        /\ tasks[t].res.code = TagCode("Timeout")
        /\ tasks[t].res_retry.code = TagCode("ConnectError")

\* the result of the attempt that decides the row of a returned task
Deciding(t) ==
    IF tasks[t].res.status = "OK" THEN tasks[t].res
    ELSE IF tasks[t].res_retry.status = "OK" THEN tasks[t].res_retry
    ELSE NoRes

\* C7 (Spec): when the deciding attempt resolved to HTTP 404 the row has
\* code 404 and its message is neither "OK" nor an auto-switch "OK (...)".
NotFoundIsNotOK ==
    \A t \in Returned :
        Deciding(t).code = HttpCode(404)
        => /\ tasks[t].ret[2] = HttpCode(404)
           /\ tasks[t].ret[3] # MSG_OK
           /\ ~StartsWith(tasks[t].ret[3], <<"OK (jidou-kirikae: ">>)

\* C8 (Spec): at most two attempts per input position; a second one only
\* after a first that was not Ok on a URL starting with "http:" or
\* "https:", and it targets the scheme-swapped URL; a URL with neither
\* prefix, or one whose first attempt got a response, is probed once and a
\* failed URL with neither prefix keeps the first attempt's result.
BoundedAttempts ==
    /\ \A k \in 1..Len(urls) :
          /\ Len(attempts[k]) <= 2
          /\ Len(attempts[k]) = 2 =>
                /\ HasSchemePrefix(Strip(urls[k]))
                /\ attempts[k] = <<Strip(urls[k]), SchemeSwapped(Strip(urls[k]))>>
    /\ \A t \in 1..Len(tasks) :
          LET tk == tasks[t] IN
          tk.st # "collected" =>
             /\ Len(attempts[tk.src + 1]) = 2 => tk.res.status = "Error"
             /\ tk.res.status = "OK" => Len(attempts[tk.src + 1]) = 1
             /\ (tk.st = "done" /\ ~HasSchemePrefix(tk.url)) =>
                   /\ Len(attempts[tk.src + 1]) = 1
                   /\ tk.ret = <<tk.src, tk.res.code, tk.res.msg>>

\* a dispatched URL with neither prefix failed and was not retried
FailedWithoutCandidate ==
    \E t \in Returned :
        /\ ~HasSchemePrefix(tasks[t].url)
        /\ tasks[t].res.status = "Error"
        /\ Len(attempts[tasks[t].src + 1]) = 1

\* C9 (Spec): at no moment are more requests in flight than
\* CONCURRENT_REQUESTS, however many tasks the batch created.
ConcurrencyBound == InFlight <= CONCURRENT_REQUESTS

\* the pool is exhausted while a task of the batch waits for a connection
PoolFullTaskWaiting ==
    /\ InFlight = CONCURRENT_REQUESTS
    /\ Len(tasks) > CONCURRENT_REQUESTS
    /\ \E t \in 1..Len(tasks) : tasks[t].st = "wait1"

\* C10 (SeqSpec): when calls follow one another, acquire_lock returns False
\* exactly when an earlier acquire_lock returned True and no release_lock
\* came after it: True then False without a release, True again after one.
SequentialAcquire ==
    [][\A p \in Procs :
          (pc[p] = "acq_check" /\ pc'[p] # "acq_check")
          => /\ (pc'[p] = "refused") <=> seqHeld
             /\ (pc'[p] = "acq_open") <=> ~seqHeld]_vars

\* one session ended and released, a later one holds the lock, a third
\* caller was refused
TrueFalseReleaseTrue ==
    \E p, q \in Procs :
        /\ p # q
        /\ pc[p] = "try" /\ seqHeld
        /\ pc[q] = "refused"
        /\ \E r \in Procs \ {p, q} : pc[r] = "ended" /\ nrelease[r] = 1

\* C12 (LiveSpec): whatever the transport does to each request, the run
\* goes through every batch and ends with a result at every output
\* position; every entry that can be probed has been probed, whichever
\* other entries failed.
NoPartialFailureAbort ==
    <>(/\ rpc = "finished"
       /\ Len(all_statuses) = Len(urls)
       /\ \A k \in 1..Len(urls) :
             /\ all_statuses[k] # None /\ all_msgs[k] # None
             /\ Dispatchable(Strip(urls[k])) => attempts[k] # <<>>)

FailureCodes == {TagCode("Timeout"), TagCode("ConnectError"), TagCode("Error")}

\* a finished run in which an entry of the first batch failed and an entry
\* of a later batch was probed
FailedRowThenLaterBatch ==
    /\ rpc = "finished"
    /\ Len(urls) > BATCH_SIZE
    /\ \E k \in 1..BATCH_SIZE : all_statuses[k] \in FailureCodes
    /\ \E m \in (BATCH_SIZE + 1)..Len(urls) : attempts[m] # <<>>

\* C13 (Spec): every output position is assigned a row result once: once
\* in its batch's result list and once in the merged list, never twice,
\* and by the end of the run never zero times.
ExactlyOnceStorage ==
    \A k \in 1..Len(nstored) :
        /\ nstored[k] <= 1
        /\ nmerged[k] <= 1
        /\ nmerged[k] = 1 => nstored[k] = 1
        /\ rpc = "finished" => nmerged[k] = 1

\* a finished run of more than one batch with probed and invalid entries,
\* each position stored once
AllStoredOnce ==
    /\ rpc = "finished"
    /\ Len(urls) > BATCH_SIZE
    /\ \A k \in 1..Len(urls) : nstored[k] = 1 /\ nmerged[k] = 1
    /\ \E k \in 1..Len(urls) : attempts[k] # <<>>
    /\ \E k \in 1..Len(urls) : all_statuses[k] = CODE_INVALID

\* the batch (counted from 0) an input position belongs to
BatchOf(k) == (k - 1) \div BATCH_SIZE

\* C14 (Spec): batches never overlap: the tasks that exist belong to the
\* current batch; between batches and during the pause no task exists and
\* no connection is in flight; a request of a batch is made, and a result of
\* a batch is stored, only after every result of the earlier batches has
\* been merged.
BatchesNeverOverlap ==
    /\ \A t \in 1..Len(tasks) : BatchOf(tasks[t].src + 1) = i \div BATCH_SIZE
    /\ rpc \in {"start", "loop", "sleep", "finished"} => tasks = <<>> /\ InFlight = 0
    /\ \A k, m \in 1..Len(attempts) :
          (BatchOf(m) < BatchOf(k) /\ (attempts[k] # <<>> \/ nstored[k] >= 1))
          => (nmerged[m] = 1 /\ all_statuses[m] # None)

\* a request of the second batch is in flight, the first batch merged
LaterBatchInFlight ==
    /\ rpc = "batch"
    /\ i >= BATCH_SIZE
    /\ InFlight >= 1
    /\ \A m \in 1..i : all_statuses[m] # None /\ attempts[m] # <<>>

CeilDiv(a, b) == (a + b - 1) \div b

\* the number of pauses a run over n entries makes
ExpectedPauses(n) == IF n <= BATCH_SIZE THEN 0 ELSE CeilDiv(n, BATCH_SIZE) - 1

\* C15 (Spec): one pause after each batch that another batch follows and
\* none after the last: a finished run over n entries has made
\* ceil(n / BATCH_SIZE) - 1 pauses, none when n <= BATCH_SIZE.
InterBatchPacing ==
    /\ pauses <= ExpectedPauses(total_rows)
    /\ rpc = "finished" => pauses = ExpectedPauses(total_rows)
    /\ (rpc \in {"batch", "sleep"} \/ (rpc = "loop" /\ i < total_rows))
          => pauses = i \div BATCH_SIZE

\* a finished run of two batches with its one pause made
PausedBetweenBatches ==
    /\ rpc = "finished"
    /\ Len(urls) > BATCH_SIZE
    /\ pauses = 1

\* batches whose results have been merged
BatchesMerged ==
    IF rpc = "sleep" THEN i \div BATCH_SIZE + 1 ELSE i \div BATCH_SIZE

\* C19 (Spec): one progress value per merged batch, reported once the
\* batch is merged; the k-th value is min(k * BATCH_SIZE, total) / total;
\* the values never decrease, never exceed 1, and are 1 exactly for the
\* last batch.
ProgressReporting ==
    /\ Len(progress) = BatchesMerged
    /\ \A k \in 1..Len(progress) :
          /\ \A m \in 1..Min(k * BATCH_SIZE, total_rows) : nmerged[m] = 1
          /\ progress[k][2] > 0
          /\ progress[k][1] * total_rows = Min(k * BATCH_SIZE, total_rows) * progress[k][2]
          /\ ~FracLess(<<1, 1>>, progress[k])
          /\ (progress[k][1] = progress[k][2]) <=> (k * BATCH_SIZE >= total_rows)
          /\ k < Len(progress) => ~FracLess(progress[k + 1], progress[k])

\* a finished run that reported a part and then the whole
ProgressPartThenWhole ==
    /\ rpc = "finished"
    /\ Len(progress) = 2
    /\ FracLess(progress[1], <<1, 1>>)
    /\ progress[2] = <<1, 1>>

\* C11 (LockSpec): no call of release_lock raises, whichever way the
\* end-of-run release of a session and the forced releases of other
\* processes interleave.
ReleaseNeverRaises == ~rel_raised

\* C16 (LockSpec): a record that is in the lock file keeps its content for
\* as long as the file is there; the only change it can undergo is removal.
RecordImmutable ==
    [][lockFile.kind = "json" => (lockFile' = lockFile \/ ~lockFile'.exists)]_vars

\* C17 (SeqSpec): the release at the end of a session's run removes only
\* the marker that session wrote, never the marker of a session that
\* acquired the lock after a forced release.
ReleaseOwnMarkerOnly ==
    [][\A p \in Procs :
          (pc[p] = "fin_remove" /\ pc'[p] = "ended" /\ lockFile.kind = "json")
          => lockFile.data.user = user_name(p)]_vars

\* C18 (LockSpec): get_lock_status and acquire_lock agree: in a state where
\* get_lock_status reports no lock (file absent, empty or unreadable) the
\* acquire_lock that tests the file in that state goes on to return True.
StatusAcquireAgree ==
    [][\A p \in Procs :
          (pc[p] = "acq_check" /\ pc'[p] # "acq_check" /\ ~get_lock_status)
          => pc'[p] = "acq_open"]_vars

====
